---- MODULE Spec2Model ----
(***************************************************************************)
(* Model of zwoToFitConverter (src/main.py): the conversion of a ZWO       *)
(* workout document into the ordered step records of a FIT workout.        *)
(*                                                                         *)
(* Numbers.  Power fractions are decimal literals with two digits; the     *)
(* model writes the literal 0.hh as the integer hh (hundredths).  Python   *)
(* evaluates them in IEEE-754 binary64, so a fraction in flight is the     *)
(* record [n, ulp]: the double that lies ulp units in the last place above *)
(* the double nearest to n/200.  Where the code compares or rounds a       *)
(* product of doubles, the exact rational value decides unless it sits on  *)
(* the compared threshold or on a half-integer; there the sign of the      *)
(* binary64 rounding error decides, and the model carries those signs in   *)
(* tables AvgUlpUp/Down, Mul100Up/Down, BufferUp/Down and RatioUp/Down,   *)
(* obtained by evaluating the source expressions in binary64 over the      *)
(* values the model draws.                                                 *)
(***************************************************************************)
EXTENDS Integers, Sequences, FiniteSets, TLC

VARIABLES
    pc,         \* position: "call"/"returned" (one method called on its own),
                \* "start"/"parsed"/"written" (one document converted),
                \* "folder"/"loop"/"done" (convert_folder)
    converter,  \* the zwoToFitConverter instance (self)
    call,       \* the method called on its own and its arguments
    ret,        \* its return value
    zwo,        \* the source document handed to parse_zwo_file
    workout,    \* the dictionary returned by parse_zwo_file
    fit,        \* the messages added to the FitFileBuilder, in order
    zwo_files,  \* convert_folder: the files glob.glob returned, in order
    file_index, \* position of the loop "for zwo_file in zwo_files"
    successful_conversions,     \* None until the loop's counters exist
    failed_conversions,
    attempted,  \* the positions handed to convert_zwo_to_fit, in order
    fit_folder  \* the output folder: file name -> content written

\* the state of convert_folder
folder == <<zwo_files, file_index, successful_conversions,
            failed_conversions, attempted, fit_folder>>

vars == <<pc, converter, call, ret, zwo, workout, fit, zwo_files, file_index,
          successful_conversions, failed_conversions, attempted, fit_folder>>

(***************************************************************************)
(* Bounds                                                                  *)
(***************************************************************************)
MaxBlocks == 2      \* children of <workout> in a document
MaxRepeat == 3      \* largest Repeat attribute of an IntervalsT block
MaxWatts == 310     \* largest watt value handed to _convert_power_for_fit
MaxFiles == 2       \* .zwo files in the folder handed to convert_folder

(***************************************************************************)
(* Optional values: None is the empty tuple, a present value a 1-tuple.    *)
(***************************************************************************)
None == <<>>
Some(v) == <<v>>

(***************************************************************************)
(* Binary64 fractions                                                      *)
(***************************************************************************)
\* float("0.hh"): the double nearest to the decimal literal
float(h) == [n |-> 2 * h, ulp |-> 0]

\* (power_low + power_high) / 2 lands this many ulps away from the double
\* nearest to the exact average
AvgUlpUp == {<<55, 65>>, <<55, 90>>, <<65, 55>>, <<65, 80>>,
             <<80, 65>>, <<80, 90>>, <<90, 55>>, <<90, 80>>}
AvgUlpDown == {<<60, 70>>, <<70, 60>>}

\* x * 100 in binary64 is above (Up) or below (Down) the exact n/2, for the
\* double <<n, ulp>>
Mul100Up == {<<109, 0>>, <<110, 0>>, <<111, 0>>, <<112, 0>>, <<218, 0>>,
             <<220, 0>>, <<222, 0>>, <<224, 0>>,
             <<120, 1>>, <<145, 1>>, <<170, 1>>}
Mul100Down == {<<113, 0>>, <<114, 0>>, <<115, 0>>, <<116, 0>>, <<201, 0>>,
               <<203, 0>>, <<205, 0>>, <<207, 0>>, <<226, 0>>, <<228, 0>>,
               <<230, 0>>, <<232, 0>>,
               <<130, -1>>}

\* target_watts * (1 -/+ buffer) in binary64 is above / below an exact
\* half-integer: <<ftp_watts, buffer percent, hundredths>>
BufferUp == {<<200, 5, 55>>}
BufferDown == {<<200, 5, 115>>}

\* (watts / ftp_watts) * 100 * 10 in binary64 is above / below an exact
\* half-integer: <<ftp_watts, watts>>
RatioUp == {<<240, 33>>, <<240, 147>>, <<240, 249>>, <<240, 279>>,
            <<240, 483>>, <<240, 513>>}
RatioDown == {<<240, 69>>, <<240, 123>>, <<240, 153>>, <<240, 261>>,
              <<240, 291>>, <<240, 507>>}

Sign(up, down, key) == IF key \in up THEN 1 ELSE IF key \in down THEN -1 ELSE 0

\* Python's round() on a double whose exact value is num/den (den > 0) and
\* whose binary64 error has sign err: nearest integer, an exact half goes to
\* the even neighbour
round(num, den, err) ==
    LET fl == num \div den
        twice == 2 * (num - fl * den)
    IN  IF twice > den THEN fl + 1
        ELSE IF twice < den THEN fl
        ELSE IF err > 0 THEN fl + 1
        ELSE IF err < 0 THEN fl
        ELSE IF fl % 2 = 0 THEN fl ELSE fl + 1

Average(power_low, power_high) ==
    [n |-> (power_low.n + power_high.n) \div 2,
     ulp |-> Sign(AvgUlpUp, AvgUlpDown,
                  <<power_low.n \div 2, power_high.n \div 2>>)]

(***************************************************************************)
(* zwoToFitConverter: the numeric helpers                                  *)
(***************************************************************************)
\* self.power_buffer_percent holds the percentage; the code keeps it / 100.0
__init__(ftp_watts, use_power_for_cycling, power_buffer_percent, use_absolute_power, warmup_manual_advance, cooldown_manual_advance, force_warmup_power) ==
    [ftp_watts |-> ftp_watts,
     use_power_for_cycling |-> use_power_for_cycling,
     power_buffer_percent |-> power_buffer_percent,
     use_absolute_power |-> use_absolute_power,
     warmup_manual_advance |-> warmup_manual_advance,
     cooldown_manual_advance |-> cooldown_manual_advance,
     force_warmup_power |-> force_warmup_power]

\* variant: the absolute encoding without the 1000 offset
_convert_power_for_fit_NoOffset(self, watts) ==
    IF self.use_absolute_power
    THEN watts
    ELSE round(watts * 1000, self.ftp_watts,
               Sign(RatioUp, RatioDown, <<self.ftp_watts, watts>>))

_convert_power_for_fit(self, watts) ==
    IF self.use_absolute_power
    THEN watts + 1000
    ELSE round(watts * 1000, self.ftp_watts,
               Sign(RatioUp, RatioDown, <<self.ftp_watts, watts>>))

\* variant: the use_power_for_cycling switch is not consulted
_should_use_power_AnyConfig(self, sport) == sport \in {"bike", "cycling"}

_should_use_power(self, sport) ==
    self.use_power_for_cycling /\ sport \in {"bike", "cycling"}

\* variant: int() without round(), truncating the buffered watts
_apply_power_buffer_watts_Truncated(self, power_percentage) ==
    LET target_watts == power_percentage.n * self.ftp_watts
    IN  <<(target_watts * (100 - self.power_buffer_percent)) \div 20000,
          (target_watts * (100 + self.power_buffer_percent)) \div 20000>>

\* returns <<low_watts, high_watts>>
_apply_power_buffer_watts(self, power_percentage) ==
    LET key == <<self.ftp_watts, self.power_buffer_percent,
                 power_percentage.n \div 2>>
        err == Sign(BufferUp, BufferDown, key)
        target_watts == power_percentage.n * self.ftp_watts  \* in 1/200 W
        low_watts == target_watts * (100 - self.power_buffer_percent)
        high_watts == target_watts * (100 + self.power_buffer_percent)
    IN  <<round(low_watts, 20000, err), round(high_watts, 20000, err)>>

\* power_pct is kept in eighths of a percent, the last unit carrying the
\* sign of the binary64 error of power_percentage * 100
_power_to_heart_rate_zone(power_percentage) ==
    LET power_pct == 4 * power_percentage.n
                     + Sign(Mul100Up, Mul100Down,
                            <<power_percentage.n, power_percentage.ulp>>)
    IN  IF power_pct <= 8 * 55 THEN 1
        ELSE IF power_pct <= 8 * 70 THEN 2
        ELSE IF power_pct <= 8 * 85 THEN 3
        ELSE IF power_pct <= 8 * 95 THEN 4
        ELSE 5

(***************************************************************************)
(* Source elements: a tag and the attributes that are present.  Duration   *)
(* and Repeat attributes are integers, power attributes hundredths.        *)
(***************************************************************************)
\* element.get(key, default)
get(element, key, default) ==
    IF key \in DOMAIN element.attrs THEN element.attrs[key] ELSE default

\* the step dictionary with a custom power range
PowerStep(name, intensity, duration_type, duration_value, low, high) ==
    [wkt_step_name |-> name,
     intensity |-> intensity,
     duration_type |-> duration_type,
     duration_value |-> duration_value,
     target_type |-> "POWER",
     target_value |-> 0,
     custom_target_value_low |-> low,
     custom_target_value_high |-> high]

\* the step dictionary with a heart-rate zone
HeartRateStep(name, intensity, duration_type, duration_value, hr_zone) ==
    [wkt_step_name |-> name,
     intensity |-> intensity,
     duration_type |-> duration_type,
     duration_value |-> duration_value,
     target_type |-> "HEART_RATE",
     target_value |-> hr_zone]

\* variant: the override replaces power_low only
WarmupPowers_LowOnly(self, element) ==
    IF self.force_warmup_power # None
    THEN <<float(self.force_warmup_power[1]),
           float(get(element, "PowerHigh", 70))>>
    ELSE <<float(get(element, "PowerLow", 60)),
           float(get(element, "PowerHigh", 70))>>

\* <<power_low, power_high>> of a Warmup after the force_warmup_power
\* override
WarmupPowers(self, element) ==
    IF self.force_warmup_power # None
    THEN <<float(self.force_warmup_power[1]),
           float(self.force_warmup_power[1])>>
    ELSE <<float(get(element, "PowerLow", 60)),
           float(get(element, "PowerHigh", 70))>>

_parse_warmup(self, element, sport) ==
    LET duration == get(element, "Duration", 600)
        forced == self.force_warmup_power # None
        power_low == WarmupPowers(self, element)[1]
        power_high == WarmupPowers(self, element)[2]
        duration_type == IF self.warmup_manual_advance THEN "OPEN" ELSE "TIME"
        duration_value == IF self.warmup_manual_advance THEN 0
                          ELSE duration * 1000
        step_name == IF self.warmup_manual_advance
                     THEN "Warm up (Press LAP when ready)" ELSE "Warm up"
        power_low_watts == _apply_power_buffer_watts(self, power_low)[1]
        power_high_watts ==
            IF power_low = power_high
            THEN _apply_power_buffer_watts(self, power_low)[2]
            ELSE _apply_power_buffer_watts(self, power_high)[2]
        hr_zone ==
            IF forced
            THEN _power_to_heart_rate_zone(float(self.force_warmup_power[1]))
            ELSE _power_to_heart_rate_zone(Average(power_low, power_high))
    IN  IF _should_use_power(self, sport)
        THEN PowerStep(step_name, "WARMUP", duration_type, duration_value,
                       _convert_power_for_fit(self, power_low_watts),
                       _convert_power_for_fit(self, power_high_watts))
        ELSE HeartRateStep(step_name, "WARMUP", duration_type,
                           duration_value, hr_zone)

_parse_cooldown(self, element, sport) ==
    LET duration == get(element, "Duration", 600)
        power_low == float(get(element, "PowerLow", 60))
        power_high == float(get(element, "PowerHigh", 65))
        duration_type == IF self.cooldown_manual_advance THEN "OPEN"
                         ELSE "TIME"
        duration_value == IF self.cooldown_manual_advance THEN 0
                          ELSE duration * 1000
        step_name == IF self.cooldown_manual_advance
                     THEN "Cool down (Press LAP when ready)" ELSE "Cool down"
        power_low_watts == _apply_power_buffer_watts(self, power_low)[1]
        power_high_watts ==
            IF power_low = power_high
            THEN _apply_power_buffer_watts(self, power_low)[2]
            ELSE _apply_power_buffer_watts(self, power_high)[2]
        hr_zone == _power_to_heart_rate_zone(Average(power_low, power_high))
    IN  IF _should_use_power(self, sport)
        THEN PowerStep(step_name, "COOLDOWN", duration_type, duration_value,
                       _convert_power_for_fit(self, power_low_watts),
                       _convert_power_for_fit(self, power_high_watts))
        ELSE HeartRateStep(step_name, "COOLDOWN", duration_type,
                           duration_value, hr_zone)

\* one leg (work or recovery) of an interval
IntervalLeg(self, sport, name, intensity, duration, power) ==
    LET watts == _apply_power_buffer_watts(self, power)
    IN  IF _should_use_power(self, sport)
        THEN PowerStep(name, intensity, "TIME", duration * 1000,
                       _convert_power_for_fit(self, watts[1]),
                       _convert_power_for_fit(self, watts[2]))
        ELSE HeartRateStep(name, intensity, "TIME", duration * 1000,
                           _power_to_heart_rate_zone(power))

\* the body of the loop "for i in range(repeat)", from iteration i on
RECURSIVE IntervalLoop(_, _, _, _, _)
IntervalLoop(self, element, sport, i, steps) ==
    LET repeat == get(element, "Repeat", 1)
        on_duration == get(element, "OnDuration", 300)
        off_duration == get(element, "OffDuration", 120)
        on_power == float(get(element, "OnPower", 85))
        off_power == float(get(element, "OffPower", 65))
        work_step ==
            IntervalLeg(self, sport,
                        "Interval " \o ToString(i + 1) \o " - Work",
                        "ACTIVE", on_duration, on_power)
        recovery_step ==
            IntervalLeg(self, sport,
                        "Interval " \o ToString(i + 1) \o " - Recovery",
                        "REST", off_duration, off_power)
    IN  IF i >= repeat THEN steps
        ELSE IntervalLoop(self, element, sport, i + 1,
                          IF i < repeat - 1
                          THEN steps \o <<work_step, recovery_step>>
                          ELSE Append(steps, work_step))

\* variant: the last work step is followed by a recovery step as well
_parse_intervals_TrailingRest(self, element, sport) ==
    LET steps == IntervalLoop(self, element, sport, 0, <<>>)
    IN  IF steps = <<>> THEN steps
        ELSE Append(steps, [steps[Len(steps)] EXCEPT !.intensity = "REST"])

_parse_intervals(self, element, sport) ==
    IntervalLoop(self, element, sport, 0, <<>>)

\* variant: the duration is left in seconds
_parse_steady_state_Seconds(self, element, sport) ==
    LET duration == get(element, "Duration", 1200)
        power == float(get(element, "Power", 75))
        watts == _apply_power_buffer_watts(self, power)
    IN  IF _should_use_power(self, sport)
        THEN PowerStep("Steady state", "ACTIVE", "TIME", duration,
                       _convert_power_for_fit(self, watts[1]),
                       _convert_power_for_fit(self, watts[2]))
        ELSE HeartRateStep("Steady state", "ACTIVE", "TIME", duration,
                           _power_to_heart_rate_zone(power))

_parse_steady_state(self, element, sport) ==
    LET duration == get(element, "Duration", 1200)
        power == float(get(element, "Power", 75))
        watts == _apply_power_buffer_watts(self, power)
    IN  IF _should_use_power(self, sport)
        THEN PowerStep("Steady state", "ACTIVE", "TIME", duration * 1000,
                       _convert_power_for_fit(self, watts[1]),
                       _convert_power_for_fit(self, watts[2]))
        ELSE HeartRateStep("Steady state", "ACTIVE", "TIME", duration * 1000,
                           _power_to_heart_rate_zone(power))

\* the loop "for element in workout_element", from child k on
RECURSIVE WorkoutLoop(_, _, _, _, _)
WorkoutLoop(self, workout_element, sport, k, steps) ==
    IF k > Len(workout_element) THEN steps
    ELSE LET element == workout_element[k]
         IN  WorkoutLoop(self, workout_element, sport, k + 1,
                 IF element.tag = "Warmup"
                 THEN Append(steps, _parse_warmup(self, element, sport))
                 ELSE IF element.tag = "Cooldown"
                 THEN Append(steps, _parse_cooldown(self, element, sport))
                 ELSE IF element.tag = "IntervalsT"
                 THEN steps \o _parse_intervals(self, element, sport)
                 ELSE IF element.tag = "SteadyState"
                 THEN Append(steps, _parse_steady_state(self, element, sport))
                 ELSE steps)

\* variant: the first child of <workout> is passed over
_parse_workout_steps_SkipFirst(self, workout_element, sport) ==
    WorkoutLoop(self, workout_element, sport, 2, <<>>)

_parse_workout_steps(self, workout_element, sport) ==
    WorkoutLoop(self, workout_element, sport, 1, <<>>)

\* str.lower() on the sportType texts the model draws
lower(text) ==
    CASE text = "Bike" -> "bike"
      [] text = "BIKE" -> "bike"
      [] text = "Cycling" -> "cycling"
      [] text = "Run" -> "run"
      [] OTHER -> text

\* the document is [name, sportType, workout], each None when the element
\* is absent; the documents of the model carry no description element
parse_zwo_file(self, document) ==
    LET name == IF document.name # None THEN document.name[1]
                ELSE "Unnamed Workout"
        sport_type == IF document.sportType # None THEN document.sportType[1]
                      ELSE "other"
        steps == IF document.workout # None
                 THEN _parse_workout_steps(self, document.workout[1],
                                           lower(sport_type))
                 ELSE <<>>
    IN  [name |-> name, description |-> "", sport |-> lower(sport_type),
         steps |-> steps]

(***************************************************************************)
(* create_fit_workout: the messages handed to the FitFileBuilder           *)
(***************************************************************************)
sport_mapping(sport) ==
    CASE sport = "run" -> "RUNNING"
      [] sport = "bike" -> "CYCLING"
      [] sport = "cycling" -> "CYCLING"
      [] sport = "swim" -> "SWIMMING"
      [] sport = "other" -> "GENERIC"
      [] OTHER -> "GENERIC"

\* a field copied only "if key in step_data"
Optional(step_data, key) ==
    IF key \in DOMAIN step_data THEN key :> step_data[key] ELSE <<>>

\* variant: message_index counts from 1
WorkoutStepMessage_OneBased(i, step_data) ==
    [message_index |-> i + 1,
     wkt_step_name |-> step_data.wkt_step_name,
     duration_type |-> step_data.duration_type,
     duration_value |-> step_data.duration_value,
     target_type |-> step_data.target_type,
     target_value |-> step_data.target_value]
    @@ Optional(step_data, "custom_target_value_low")
    @@ Optional(step_data, "custom_target_value_high")
    @@ Optional(step_data, "intensity")

\* the WorkoutStepMessage built in iteration i of enumerate(steps)
WorkoutStepMessage(i, step_data) ==
    [message_index |-> i,
     wkt_step_name |-> step_data.wkt_step_name,
     duration_type |-> step_data.duration_type,
     duration_value |-> step_data.duration_value,
     target_type |-> step_data.target_type,
     target_value |-> step_data.target_value]
    @@ Optional(step_data, "custom_target_value_low")
    @@ Optional(step_data, "custom_target_value_high")
    @@ Optional(step_data, "intensity")

\* the loop "for i, step_data in enumerate(workout_data['steps'])"
RECURSIVE StepMessageLoop(_, _, _)
StepMessageLoop(steps, i, workout_steps) ==
    IF i >= Len(steps) THEN workout_steps
    ELSE StepMessageLoop(steps, i + 1,
             Append(workout_steps, WorkoutStepMessage(i, steps[i + 1])))

\* the builder's content: file id, workout message, then add_all(steps);
\* time_created is the wall clock and is left out
create_fit_workout(self, workout_data) ==
    LET file_id_message ==
            [type |-> "WORKOUT", manufacturer |-> "GARMIN", product |-> 0]
        workout_steps == StepMessageLoop(workout_data.steps, 0, <<>>)
        workout_message ==
            [wkt_name |-> workout_data.name,
             sport |-> sport_mapping(workout_data.sport),
             capabilities |-> "TCX",
             num_valid_steps |-> Len(workout_steps)]
    IN  [file_id |-> file_id_message,
         workout |-> workout_message,
         workout_steps |-> workout_steps]

(***************************************************************************)
(* convert_zwo_to_fit: the output file name, and the exceptions the code   *)
(* can raise over the files and configurations the model draws.  A file    *)
(* is [content]: Some(document) when it is well formed, None when          *)
(* ET.parse raises ParseError on it.                                       *)
(***************************************************************************)
\* the characters of the workout names of the model, as "for c in name"
chars(text) ==
    CASE text = "Tempo Ride" ->
            <<"T", "e", "m", "p", "o", " ", "R", "i", "d", "e">>
      [] text = "Tempo_Ride" ->
            <<"T", "e", "m", "p", "o", "_", "R", "i", "d", "e">>
      [] text = "Tempo: Ride " ->
            <<"T", "e", "m", "p", "o", ":", " ", "R", "i", "d", "e", " ">>
      [] text = "FTP-Test 2" ->
            <<"F", "T", "P", "-", "T", "e", "s", "t", " ", "2">>
      [] text = "Unnamed Workout" ->
            <<"U", "n", "n", "a", "m", "e", "d", " ",
              "W", "o", "r", "k", "o", "u", "t">>

\* c.isalnum(), over the characters of the model's names
isalnum(c) ==
    c \in {"T", "e", "m", "p", "o", "R", "i", "d", "F", "P", "s", "t", "2",
           "U", "n", "a", "W", "r", "k", "u"}

\* the filter of the generator: c.isalnum() or c in (' ', '-', '_')
Kept(c) == isalnum(c) \/ c \in {" ", "-", "_"}

\* str.rstrip(): trailing whitespace removed
RECURSIVE rstrip(_)
rstrip(text) ==
    IF text # <<>> /\ text[Len(text)] = " "
    THEN rstrip(SubSeq(text, 1, Len(text) - 1))
    ELSE text

\* str.replace(old, new) for single characters
replace(text, old, new) ==
    [k \in DOMAIN text |-> IF text[k] = old THEN new ELSE text[k]]

\* "".join(characters)
RECURSIVE join(_)
join(characters) ==
    IF characters = <<>> THEN ""
    ELSE characters[1] \o join(Tail(characters))

\* f"{safe_name}.fit"; os.path.join(output_dir, ...) prefixes every name
\* with the same folder and is left out
output_filename(workout_data) ==
    LET safe_name == rstrip(SelectSeq(chars(workout_data.name), Kept))
    IN  join(replace(safe_name, " ", "_")) \o ".fit"

\* _convert_power_for_fit: watts / self.ftp_watts raises ZeroDivisionError
ZeroDivisionError(self) == ~self.use_absolute_power /\ self.ftp_watts = 0

\* the element makes its parser call _convert_power_for_fit in power mode
ConvertsPower(element) ==
    \/ element.tag \in {"Warmup", "Cooldown", "SteadyState"}
    \/ element.tag = "IntervalsT" /\ get(element, "Repeat", 1) >= 1

\* parse_zwo_file raises on the file: ParseError from ET.parse, or the
\* ZeroDivisionError of a power step
ParseRaises(self, zwo_file) ==
    IF zwo_file.content = None THEN TRUE
    ELSE LET document == zwo_file.content[1]
             sport_type == IF document.sportType # None
                           THEN document.sportType[1] ELSE "other"
         IN  /\ ZeroDivisionError(self)
             /\ _should_use_power(self, lower(sport_type))
             /\ document.workout # None
             /\ \E k \in DOMAIN document.workout[1] :
                    ConvertsPower(document.workout[1][k])

\* create_fit_workout raises after fit_file.to_file: the step listing it
\* prints divides the watts of a power step by self.ftp_watts
ListingRaises(self, zwo_file) ==
    IF ParseRaises(self, zwo_file) THEN FALSE
    ELSE LET workout_data == parse_zwo_file(self, zwo_file.content[1])
         IN  /\ self.ftp_watts = 0
             /\ \E i \in DOMAIN workout_data.steps :
                    workout_data.steps[i].target_type = "POWER"

\* convert_zwo_to_fit raises on the file
Raises(self, zwo_file) ==
    IF ParseRaises(self, zwo_file) THEN TRUE
    ELSE ListingRaises(self, zwo_file)

\* the try block on a file that parses: the output folder after
\* fit_file.to_file(output_path), which replaces a file of that name
convert_zwo_to_fit(self, zwo_file, output_dir) ==
    LET workout_data == parse_zwo_file(self, zwo_file.content[1])
        output_path == output_filename(workout_data)
    IN  [path \in DOMAIN output_dir \cup {output_path} |->
            IF path = output_path
            THEN create_fit_workout(self, workout_data)
            ELSE output_dir[path]]

(***************************************************************************)
(* The values the model draws                                              *)
(***************************************************************************)
FtpValues == {200, 240}
BufferValues == {0, 5}
ForceValues == {None, Some(50)}

Converters ==
    {__init__(f, u, b, a, wm, cm, fw) :
        f \in FtpValues, u \in BOOLEAN, b \in BufferValues, a \in BOOLEAN,
        wm \in BOOLEAN, cm \in BOOLEAN, fw \in ForceValues}

\* main(): the converter the script builds, with force_warmup_power unset
DefaultConverter == __init__(240, TRUE, 5, TRUE, TRUE, FALSE, None)

\* an attribute that may be absent
Attr(key, values) == {<<>>} \cup {key :> v : v \in values}

Element(tag, attrs) == [tag |-> tag, attrs |-> attrs]

RampValues == {50, 55, 80, 90}
PowerValues == 40..120

WarmupElements ==
    {Element("Warmup", d @@ l @@ h) :
        d \in Attr("Duration", {300}),
        l \in Attr("PowerLow", RampValues),
        h \in Attr("PowerHigh", RampValues)}

CooldownElements ==
    {Element("Cooldown", d @@ l @@ h) :
        d \in Attr("Duration", {300}),
        l \in Attr("PowerLow", RampValues),
        h \in Attr("PowerHigh", RampValues)}

SteadyStateElements ==
    {Element("SteadyState", d @@ p) :
        d \in Attr("Duration", {600}),
        p \in Attr("Power", {55, 70, 85, 95, 100})}

IntervalsTElements ==
    {Element("IntervalsT", r @@ d @@ p) :
        r \in Attr("Repeat", 0..MaxRepeat),
        d \in {<<>>, ("OnDuration" :> 60) @@ ("OffDuration" :> 30)},
        p \in {<<>>, ("OnPower" :> 95) @@ ("OffPower" :> 55),
                     ("OnPower" :> 100) @@ ("OffPower" :> 50)}}

\* the children a document of the model may hold
Children ==
    {Element("Warmup", <<>>),
     Element("Warmup", ("Duration" :> 300) @@ ("PowerLow" :> 80)
                       @@ ("PowerHigh" :> 90)),
     Element("Cooldown", ("Duration" :> 300) @@ ("PowerLow" :> 55)
                         @@ ("PowerHigh" :> 50)),
     Element("SteadyState", ("Duration" :> 600) @@ ("Power" :> 55)),
     Element("IntervalsT", ("Repeat" :> MaxRepeat) @@ ("OnPower" :> 95)
                           @@ ("OffPower" :> 55)),
     Element("FreeRide", "Duration" :> 600)}

ChildSequences == UNION {[1..k -> Children] : k \in 0..MaxBlocks}

Documents ==
    {[name |-> None, sportType |-> None, workout |-> None]}
    \cup {[name |-> Some("Tempo Ride"), sportType |-> Some(s),
           workout |-> Some(w)] :
            s \in {"Bike", "Cycling", "Run"}, w \in ChildSequences}
    \cup {[name |-> None, sportType |-> None, workout |-> Some(w)] :
            w \in ChildSequences}

Sports == {"bike", "cycling", "run"}

\* a method called on its own, with its arguments
Calls ==
    {[fn |-> "_power_to_heart_rate_zone", power_percentage |-> float(h)] :
        h \in PowerValues}
    \cup {[fn |-> "_apply_power_buffer_watts", power_percentage |-> float(h)] :
            h \in PowerValues}
    \cup {[fn |-> "_convert_power_for_fit", watts |-> w] : w \in 0..MaxWatts}
    \cup {[fn |-> "_should_use_power", sport |-> s] :
            s \in Sports \cup {"swim", "other", "Bike"}}
    \cup {[fn |-> "_parse_warmup", element |-> e, sport |-> s] :
            e \in WarmupElements, s \in Sports}
    \cup {[fn |-> "_parse_cooldown", element |-> e, sport |-> s] :
            e \in CooldownElements, s \in Sports}
    \cup {[fn |-> "_parse_intervals", element |-> e, sport |-> s] :
            e \in IntervalsTElements, s \in Sports}
    \cup {[fn |-> "_parse_steady_state", element |-> e, sport |-> s] :
            e \in SteadyStateElements, s \in Sports}

\* the configuration fields a method reads; the others stay at main()'s
Reads(fn) ==
    CASE fn = "_power_to_heart_rate_zone" -> {}
      [] fn = "_apply_power_buffer_watts" ->
            {"ftp_watts", "power_buffer_percent"}
      [] fn = "_convert_power_for_fit" -> {"ftp_watts", "use_absolute_power"}
      [] fn = "_should_use_power" -> {"use_power_for_cycling"}
      [] fn = "_parse_warmup" -> DOMAIN DefaultConverter
                                    \ {"cooldown_manual_advance"}
      [] fn = "_parse_cooldown" -> DOMAIN DefaultConverter
                                      \ {"warmup_manual_advance"}
      [] OTHER -> DOMAIN DefaultConverter
                     \ {"warmup_manual_advance", "cooldown_manual_advance"}

\* the configurations convert_folder runs under: main()'s, the same with
\* force_warmup_power unset and with the relative encoding, and the ones
\* the data model excludes (ftp_watts 0, a negative buffer, a forced
\* warm-up fraction of 0)
FolderConverters ==
    {__init__(240, TRUE, 5, TRUE, TRUE, FALSE, Some(50)),
     DefaultConverter,
     __init__(240, TRUE, 5, FALSE, TRUE, FALSE, None),
     __init__(0, TRUE, 5, TRUE, TRUE, FALSE, None),
     __init__(0, TRUE, 5, FALSE, TRUE, FALSE, None),
     __init__(240, TRUE, -5, TRUE, TRUE, FALSE, None),
     __init__(240, TRUE, 5, TRUE, TRUE, FALSE, Some(0))}

\* the documents of the folder
FolderDocuments ==
    {[name |-> Some("Tempo Ride"), sportType |-> Some("Bike"),
      workout |-> Some(<<Element("SteadyState", ("Duration" :> 600)
                                                @@ ("Power" :> 55))>>)],
     [name |-> Some("Tempo_Ride"), sportType |-> Some("Run"),
      workout |-> Some(<<Element("Warmup", <<>>)>>)],
     [name |-> Some("Tempo: Ride "), sportType |-> Some("Bike"),
      workout |-> Some(<<Element("FreeRide", "Duration" :> 600)>>)],
     [name |-> Some("FTP-Test 2"), sportType |-> Some("Cycling"),
      workout |-> Some(<<Element("Cooldown", ("Duration" :> 300)
                                             @@ ("PowerLow" :> 55)
                                             @@ ("PowerHigh" :> 50))>>)],
     [name |-> None, sportType |-> None, workout |-> None]}

\* the *.zwo files: the documents, and a file that is not well formed
ZwoFiles ==
    {[content |-> None]} \cup {[content |-> Some(d)] : d \in FolderDocuments}

(***************************************************************************)
(* The state machine                                                       *)
(***************************************************************************)
InitCall ==
    /\ pc = "call"
    /\ call \in Calls
    /\ converter \in {c \in Converters :
                        \A k \in DOMAIN c \ Reads(call.fn) :
                            c[k] = DefaultConverter[k]}
    /\ ret = None
    /\ zwo = None
    /\ workout = None
    /\ fit = None
    /\ zwo_files = <<>>
    /\ file_index = 0
    /\ successful_conversions = None
    /\ failed_conversions = None
    /\ attempted = <<>>
    /\ fit_folder = <<>>

InitConvert ==
    /\ pc = "start"
    /\ converter \in Converters
    /\ zwo \in Documents
    /\ call = None
    /\ ret = None
    /\ workout = None
    /\ fit = None
    /\ zwo_files = <<>>
    /\ file_index = 0
    /\ successful_conversions = None
    /\ failed_conversions = None
    /\ attempted = <<>>
    /\ fit_folder = <<>>

\* convert_folder called on a folder of at most MaxFiles files
InitFolder ==
    /\ pc = "folder"
    /\ converter \in FolderConverters
    /\ zwo_files \in UNION {[1..n -> ZwoFiles] : n \in 0..MaxFiles}
    /\ file_index = 0
    /\ successful_conversions = None
    /\ failed_conversions = None
    /\ attempted = <<>>
    /\ fit_folder = <<>>
    /\ call = None
    /\ ret = None
    /\ zwo = None
    /\ workout = None
    /\ fit = None

Init == InitCall \/ InitConvert \/ InitFolder

CallPowerToHeartRateZone ==
    /\ pc = "call"
    /\ call.fn = "_power_to_heart_rate_zone"
    /\ ret' = _power_to_heart_rate_zone(call.power_percentage)
    /\ pc' = "returned"
    /\ UNCHANGED <<converter, call, zwo, workout, fit>>
    /\ UNCHANGED folder

CallApplyPowerBufferWatts ==
    /\ pc = "call"
    /\ call.fn = "_apply_power_buffer_watts"
    /\ ret' = _apply_power_buffer_watts(converter, call.power_percentage)
    /\ pc' = "returned"
    /\ UNCHANGED <<converter, call, zwo, workout, fit>>
    /\ UNCHANGED folder

CallConvertPowerForFit ==
    /\ pc = "call"
    /\ call.fn = "_convert_power_for_fit"
    /\ ret' = _convert_power_for_fit(converter, call.watts)
    /\ pc' = "returned"
    /\ UNCHANGED <<converter, call, zwo, workout, fit>>
    /\ UNCHANGED folder

CallShouldUsePower ==
    /\ pc = "call"
    /\ call.fn = "_should_use_power"
    /\ ret' = _should_use_power(converter, call.sport)
    /\ pc' = "returned"
    /\ UNCHANGED <<converter, call, zwo, workout, fit>>
    /\ UNCHANGED folder

CallParseWarmup ==
    /\ pc = "call"
    /\ call.fn = "_parse_warmup"
    /\ ret' = _parse_warmup(converter, call.element, call.sport)
    /\ pc' = "returned"
    /\ UNCHANGED <<converter, call, zwo, workout, fit>>
    /\ UNCHANGED folder

CallParseCooldown ==
    /\ pc = "call"
    /\ call.fn = "_parse_cooldown"
    /\ ret' = _parse_cooldown(converter, call.element, call.sport)
    /\ pc' = "returned"
    /\ UNCHANGED <<converter, call, zwo, workout, fit>>
    /\ UNCHANGED folder

CallParseIntervals ==
    /\ pc = "call"
    /\ call.fn = "_parse_intervals"
    /\ ret' = _parse_intervals(converter, call.element, call.sport)
    /\ pc' = "returned"
    /\ UNCHANGED <<converter, call, zwo, workout, fit>>
    /\ UNCHANGED folder

CallParseSteadyState ==
    /\ pc = "call"
    /\ call.fn = "_parse_steady_state"
    /\ ret' = _parse_steady_state(converter, call.element, call.sport)
    /\ pc' = "returned"
    /\ UNCHANGED <<converter, call, zwo, workout, fit>>
    /\ UNCHANGED folder

\* convert_zwo_to_fit, first half: workout = self.parse_zwo_file(path)
ParseZwoFile ==
    /\ pc = "start"
    /\ workout' = parse_zwo_file(converter, zwo)
    /\ pc' = "parsed"
    /\ UNCHANGED <<converter, call, ret, zwo, fit>>
    /\ UNCHANGED folder

\* convert_zwo_to_fit, second half: self.create_fit_workout(workout, path)
CreateFitWorkout ==
    /\ pc = "parsed"
    /\ fit' = create_fit_workout(converter, workout)
    /\ pc' = "written"
    /\ UNCHANGED <<converter, call, ret, zwo, workout>>
    /\ UNCHANGED folder

\* convert_folder: "if not zwo_files: ... return"
ConvertFolderNoFiles ==
    /\ pc = "folder"
    /\ zwo_files = <<>>
    /\ pc' = "done"
    /\ UNCHANGED <<converter, call, ret, zwo, workout, fit>>
    /\ UNCHANGED folder

\* convert_folder: the counters are set and the loop is entered
ConvertFolderLoop ==
    /\ pc = "folder"
    /\ zwo_files # <<>>
    /\ successful_conversions' = 0
    /\ failed_conversions' = 0
    /\ file_index' = 1
    /\ pc' = "loop"
    /\ UNCHANGED <<converter, call, ret, zwo, workout, fit, zwo_files,
                   attempted, fit_folder>>

\* an iteration whose try block completes: the file is converted and
\* written, successful_conversions += 1
ConvertZwoToFit ==
    /\ pc = "loop"
    /\ file_index <= Len(zwo_files)
    /\ ~Raises(converter, zwo_files[file_index])
    /\ attempted' = Append(attempted, file_index)
    /\ fit_folder' = convert_zwo_to_fit(converter, zwo_files[file_index],
                                        fit_folder)
    /\ successful_conversions' = successful_conversions + 1
    /\ file_index' = file_index + 1
    /\ UNCHANGED <<pc, converter, call, ret, zwo, workout, fit, zwo_files,
                   failed_conversions>>

\* variant: the exception leaves the loop
ConvertZwoToFitRaises_Abort ==
    /\ pc = "loop"
    /\ file_index <= Len(zwo_files)
    /\ Raises(converter, zwo_files[file_index])
    /\ attempted' = Append(attempted, file_index)
    /\ fit_folder' = IF ParseRaises(converter, zwo_files[file_index])
                     THEN fit_folder
                     ELSE convert_zwo_to_fit(converter, zwo_files[file_index],
                                             fit_folder)
    /\ failed_conversions' = failed_conversions + 1
    /\ file_index' = Len(zwo_files) + 1
    /\ UNCHANGED <<pc, converter, call, ret, zwo, workout, fit, zwo_files,
                   successful_conversions>>

\* an iteration whose try block raises: convert_zwo_to_fit re-raises,
\* "except Exception" catches, failed_conversions += 1; the output file
\* exists when the exception came after fit_file.to_file
ConvertZwoToFitRaises ==
    /\ pc = "loop"
    /\ file_index <= Len(zwo_files)
    /\ Raises(converter, zwo_files[file_index])
    /\ attempted' = Append(attempted, file_index)
    /\ fit_folder' = IF ParseRaises(converter, zwo_files[file_index])
                     THEN fit_folder
                     ELSE convert_zwo_to_fit(converter, zwo_files[file_index],
                                             fit_folder)
    /\ failed_conversions' = failed_conversions + 1
    /\ file_index' = file_index + 1
    /\ UNCHANGED <<pc, converter, call, ret, zwo, workout, fit, zwo_files,
                   successful_conversions>>

\* the loop is over: the summary is printed
ConvertFolderSummary ==
    /\ pc = "loop"
    /\ file_index > Len(zwo_files)
    /\ pc' = "done"
    /\ UNCHANGED <<converter, call, ret, zwo, workout, fit>>
    /\ UNCHANGED folder

Next ==
    \/ CallPowerToHeartRateZone
    \/ CallApplyPowerBufferWatts
    \/ CallConvertPowerForFit
    \/ CallShouldUsePower
    \/ CallParseWarmup
    \/ CallParseCooldown
    \/ CallParseIntervals
    \/ CallParseSteadyState
    \/ ParseZwoFile
    \/ CreateFitWorkout
    \/ ConvertFolderNoFiles
    \/ ConvertFolderLoop
    \/ ConvertZwoToFit
    \/ ConvertZwoToFitRaises
    \/ ConvertFolderSummary

Spec == Init /\ [][Next]_vars

(***************************************************************************)
(* Properties                                                              *)
(***************************************************************************)
Returned(fn) == pc = "returned" /\ call.fn = fn

IsPowerStep(step) ==
    /\ step.target_type = "POWER"
    /\ step.target_value = 0
    /\ {"custom_target_value_low", "custom_target_value_high"}
           \subseteq DOMAIN step

IsHeartRateStep(step) ==
    /\ step.target_type = "HEART_RATE"
    /\ step.target_value \in 1..5
    /\ {"custom_target_value_low", "custom_target_value_high"}
           \cap DOMAIN step = {}

\* C1: an IntervalsT block with Repeat = N >= 1 expands, in either target
\* mode, to exactly 2N-1 steps: N Active and N-1 Rest steps, alternating and
\* starting with Active, so that the last step is Active.
C1_IntervalsAlternate ==
    Returned("_parse_intervals") /\ get(call.element, "Repeat", 1) >= 1 =>
        LET N == get(call.element, "Repeat", 1)
        IN  /\ Len(ret) = 2 * N - 1
            /\ \A k \in 1..Len(ret) :
                  ret[k].intensity = IF k % 2 = 1 THEN "ACTIVE" ELSE "REST"
            /\ Cardinality({k \in 1..Len(ret) : ret[k].intensity = "ACTIVE"})
                  = N
            /\ Cardinality({k \in 1..Len(ret) : ret[k].intensity = "REST"})
                  = N - 1
            /\ ret[Len(ret)].intensity = "ACTIVE"

C1_Witness ==
    /\ Returned("_parse_intervals")
    /\ get(call.element, "Repeat", 1) = MaxRepeat
    /\ Len(ret) = 2 * MaxRepeat - 1
    /\ ret[1].target_type = "POWER"

\* C2: create_fit_workout emits one step record per expanded step, the k-th
\* record built from the k-th step with message_index k-1, and the workout
\* message's num_valid_steps is the number of steps.
C2_MessageIndexIsPosition ==
    pc = "written" =>
        /\ Len(fit.workout_steps) = Len(workout.steps)
        /\ fit.workout.num_valid_steps = Len(workout.steps)
        /\ \A k \in 1..Len(workout.steps) :
              /\ fit.workout_steps[k].message_index = k - 1
              /\ \A key \in DOMAIN workout.steps[k] :
                    fit.workout_steps[k][key] = workout.steps[k][key]

C2_Witness ==
    /\ pc = "written"
    /\ Len(workout.steps) > MaxRepeat
    /\ fit.workout_steps[Len(workout.steps)].message_index
           = Len(workout.steps) - 1

\* the number of steps a child contributes
StepCount(element) ==
    IF element.tag \in {"Warmup", "Cooldown", "SteadyState"} THEN 1
    ELSE IF element.tag = "IntervalsT"
            /\ get(element, "Repeat", 1) >= 1
         THEN 2 * get(element, "Repeat", 1) - 1
    ELSE 0

RECURSIVE StepsBefore(_, _)
StepsBefore(children, k) ==
    IF k <= 1 THEN 0
    ELSE StepsBefore(children, k - 1) + StepCount(children[k - 1])

\* the expansion of one recognized child
Expansion(self, element, sport) ==
    CASE element.tag = "Warmup" -> <<_parse_warmup(self, element, sport)>>
      [] element.tag = "Cooldown" -> <<_parse_cooldown(self, element, sport)>>
      [] element.tag = "SteadyState" ->
            <<_parse_steady_state(self, element, sport)>>
      [] element.tag = "IntervalsT" -> _parse_intervals(self, element, sport)
      [] OTHER -> <<>>

\* C3: the expanded step list is the concatenation, in document order, of
\* the expansions of the recognized children; a child with another tag
\* contributes nothing, and an empty or absent <workout> yields no step.
C3_StepsAreConcatenation ==
    pc \in {"parsed", "written"} =>
        IF zwo.workout = None THEN workout.steps = <<>>
        ELSE LET children == zwo.workout[1]
             IN  /\ Len(workout.steps)
                        = StepsBefore(children, Len(children) + 1)
                 /\ \A k \in 1..Len(children) :
                        SubSeq(workout.steps,
                               StepsBefore(children, k) + 1,
                               StepsBefore(children, k + 1))
                          = Expansion(converter, children[k], workout.sport)
                 /\ (children = <<>> => workout.steps = <<>>)

C3_Witness ==
    /\ pc = "parsed"
    /\ zwo.workout # None
    /\ Len(zwo.workout[1]) = MaxBlocks
    /\ zwo.workout[1][1].tag = "FreeRide"
    /\ zwo.workout[1][MaxBlocks].tag = "IntervalsT"
    /\ Len(workout.steps) = 2 * MaxRepeat - 1

\* the steps a state holds, each with the sport text it was expanded under
ExpandedSteps ==
    IF pc = "returned"
       /\ call.fn \in {"_parse_warmup", "_parse_cooldown",
                       "_parse_steady_state"}
    THEN {<<ret, call.sport>>}
    ELSE IF Returned("_parse_intervals")
    THEN {<<ret[k], call.sport>> : k \in 1..Len(ret)}
    ELSE IF pc \in {"parsed", "written"}
    THEN {<<workout.steps[k],
            IF zwo.sportType = None THEN "other" ELSE zwo.sportType[1]>> :
              k \in 1..Len(workout.steps)}
    ELSE {}

\* the sport texts whose lower-case form is 'bike' or 'cycling'
CyclingTexts == {"bike", "Bike", "BIKE", "cycling", "Cycling"}

\* C4: a step has a power target exactly when use_power_for_cycling is set
\* and the lower-cased sport is 'bike' or 'cycling'; a power step has target
\* value 0 and both custom bounds, every other step is a heart-rate step
\* with a zone in 1..5 and no custom bounds.
C4_TargetModeSelection ==
    \A s \in ExpandedSteps :
        IF converter.use_power_for_cycling /\ s[2] \in CyclingTexts
        THEN IsPowerStep(s[1])
        ELSE IsHeartRateStep(s[1])

C4_Witness ==
    /\ pc = "parsed"
    /\ converter.use_power_for_cycling
    /\ zwo.sportType = Some("Bike")
    /\ Len(workout.steps) = MaxBlocks
    /\ \A k \in 1..Len(workout.steps) : IsPowerStep(workout.steps[k])

\* the banded rule on an exact fraction of n two-hundredths
BandZone(n) ==
    IF n <= 110 THEN 1
    ELSE IF n <= 140 THEN 2
    ELSE IF n <= 170 THEN 3
    ELSE IF n <= 190 THEN 4
    ELSE 5

\* C5: _power_to_heart_rate_zone maps a fraction f to zone 1 for f <= 0.55,
\* 2 for f <= 0.70, 3 for f <= 0.85, 4 for f <= 0.95 and 5 otherwise; the
\* zone is in 1..5 and does not decrease when f grows.
C5_ZoneBands ==
    Returned("_power_to_heart_rate_zone") =>
        /\ ret = BandZone(call.power_percentage.n)
        /\ ret \in 1..5
        /\ \A h \in PowerValues :
              2 * h < call.power_percentage.n =>
                  _power_to_heart_rate_zone(float(h)) <= ret

Abs(x) == IF x < 0 THEN -x ELSE x

\* C6: _apply_power_buffer_watts returns the integers nearest to
\* fraction x ftp x (1 - buffer) and fraction x ftp x (1 + buffer);
\* fraction 0.75, ftp 240 and buffer 5% give 171 and 189.
C6_BufferedRange ==
    Returned("_apply_power_buffer_watts") =>
        LET target == call.power_percentage.n * converter.ftp_watts
            low == target * (100 - converter.power_buffer_percent)
            high == target * (100 + converter.power_buffer_percent)
        IN  /\ 2 * Abs(ret[1] * 20000 - low) <= 20000
            /\ 2 * Abs(ret[2] * 20000 - high) <= 20000
            /\ (/\ call.power_percentage = float(75)
                /\ converter.ftp_watts = 240
                /\ converter.power_buffer_percent = 5
                => ret = <<171, 189>>)

C6_Witness ==
    /\ Returned("_apply_power_buffer_watts")
    /\ call.power_percentage = float(75)
    /\ converter.ftp_watts = 240
    /\ converter.power_buffer_percent = 5
    /\ ret = <<171, 189>>

\* the custom bounds of a power step are the encoded lower buffered bound of
\* fraction lowF and the encoded upper buffered bound of fraction highF
EncodedBounds(self, step, lowF, highF) ==
    /\ step.custom_target_value_low
          = _convert_power_for_fit(self,
                _apply_power_buffer_watts(self, float(lowF))[1])
    /\ step.custom_target_value_high
          = _convert_power_for_fit(self,
                _apply_power_buffer_watts(self, float(highF))[2])

\* C7: _convert_power_for_fit returns watts + 1000 in the absolute encoding
\* and the integer nearest to watts / ftp x 1000 in the threshold-relative
\* one; the custom bounds of every power step are this encoding of the
\* buffered watt values of the step's fractions.
C7_PowerEncoding ==
    /\ Returned("_convert_power_for_fit") =>
          IF converter.use_absolute_power
          THEN ret = call.watts + 1000
          ELSE 2 * Abs(ret * converter.ftp_watts - call.watts * 1000)
                  <= converter.ftp_watts
    /\ Returned("_parse_warmup") /\ ret.target_type = "POWER" =>
          IF converter.force_warmup_power # None
          THEN EncodedBounds(converter, ret, converter.force_warmup_power[1],
                             converter.force_warmup_power[1])
          ELSE EncodedBounds(converter, ret,
                             get(call.element, "PowerLow", 60),
                             get(call.element, "PowerHigh", 70))
    /\ Returned("_parse_cooldown") /\ ret.target_type = "POWER" =>
          EncodedBounds(converter, ret, get(call.element, "PowerLow", 60),
                        get(call.element, "PowerHigh", 65))
    /\ Returned("_parse_steady_state") /\ ret.target_type = "POWER" =>
          EncodedBounds(converter, ret, get(call.element, "Power", 75),
                        get(call.element, "Power", 75))
    /\ Returned("_parse_intervals") =>
          \A k \in 1..Len(ret) :
              ret[k].target_type = "POWER" =>
                  LET power == IF k % 2 = 1
                               THEN get(call.element, "OnPower", 85)
                               ELSE get(call.element, "OffPower", 65)
                  IN  EncodedBounds(converter, ret[k], power, power)

C7_Witness ==
    /\ Returned("_convert_power_for_fit")
    /\ ~converter.use_absolute_power
    /\ converter.ftp_watts = 240
    /\ call.watts = 171
    /\ ret = 712

\* the names of the steps that wait for the LAP button
OpenNames ==
    {"Warm up (Press LAP when ready)", "Cool down (Press LAP when ready)"}

IsOpenStep(step) ==
    /\ step.duration_type = "OPEN"
    /\ step.duration_value = 0
    /\ step.wkt_step_name \in OpenNames

IsTimedStep(step, seconds) ==
    /\ step.duration_type = "TIME"
    /\ step.duration_value = seconds * 1000

\* C8: a step is Open exactly when it is a Warmup step and
\* warmup_manual_advance is set, or a Cooldown step and
\* cooldown_manual_advance is set; an Open step has duration value 0 and the
\* ' (Press LAP when ready)' name; every other step is Timed with the
\* block's own Duration, OnDuration or OffDuration, in seconds x 1000.
C8_DurationMode ==
    /\ Returned("_parse_warmup") =>
          IF converter.warmup_manual_advance THEN IsOpenStep(ret)
          ELSE IsTimedStep(ret, get(call.element, "Duration", 600))
    /\ Returned("_parse_cooldown") =>
          IF converter.cooldown_manual_advance THEN IsOpenStep(ret)
          ELSE IsTimedStep(ret, get(call.element, "Duration", 600))
    /\ Returned("_parse_steady_state") =>
          IsTimedStep(ret, get(call.element, "Duration", 1200))
    /\ Returned("_parse_intervals") =>
          \A k \in 1..Len(ret) :
              IsTimedStep(ret[k],
                          IF k % 2 = 1
                          THEN get(call.element, "OnDuration", 300)
                          ELSE get(call.element, "OffDuration", 120))
    /\ pc \in {"parsed", "written"} =>
          \A k \in 1..Len(workout.steps) :
              workout.steps[k].duration_type = "OPEN"
                 <=> \/ /\ workout.steps[k].intensity = "WARMUP"
                        /\ converter.warmup_manual_advance
                     \/ /\ workout.steps[k].intensity = "COOLDOWN"
                        /\ converter.cooldown_manual_advance

C8_Witness ==
    /\ pc = "parsed"
    /\ converter.warmup_manual_advance
    /\ ~converter.cooldown_manual_advance
    /\ Len(workout.steps) = 2
    /\ IsOpenStep(workout.steps[1])
    /\ workout.steps[2].intensity = "COOLDOWN"
    /\ IsTimedStep(workout.steps[2], 300)

\* the configuration with force_warmup_power unset
Unforced(self) == [self EXCEPT !.force_warmup_power = None]

\* the element with PowerLow and PowerHigh replaced by the fraction f
WithPowers(element, f) ==
    [element EXCEPT !.attrs = ("PowerLow" :> f) @@ ("PowerHigh" :> f)
                              @@ element.attrs]

\* C9: with force_warmup_power set, a Warmup step is the step of a Warmup
\* whose PowerLow and PowerHigh are both the forced fraction (power mode: the
\* buffered band around it; heart-rate mode: its zone), whatever the block's
\* own attributes; Cooldown, SteadyState and IntervalsT steps are what they
\* are with force_warmup_power unset.
C9_ForcedWarmup ==
    converter.force_warmup_power # None =>
        /\ Returned("_parse_warmup") =>
              /\ ret = _parse_warmup(Unforced(converter),
                           WithPowers(call.element,
                                      converter.force_warmup_power[1]),
                           call.sport)
              /\ IF ret.target_type = "POWER"
                 THEN EncodedBounds(converter, ret,
                                    converter.force_warmup_power[1],
                                    converter.force_warmup_power[1])
                 ELSE ret.target_value
                         = _power_to_heart_rate_zone(
                               float(converter.force_warmup_power[1]))
        /\ Returned("_parse_cooldown") =>
              ret = _parse_cooldown(Unforced(converter), call.element,
                                    call.sport)
        /\ Returned("_parse_steady_state") =>
              ret = _parse_steady_state(Unforced(converter), call.element,
                                        call.sport)
        /\ Returned("_parse_intervals") =>
              ret = _parse_intervals(Unforced(converter), call.element,
                                     call.sport)
        /\ pc \in {"parsed", "written"} /\ zwo.workout # None =>
              \A k \in 1..Len(zwo.workout[1]) :
                  zwo.workout[1][k].tag # "Warmup" =>
                      Expansion(converter, zwo.workout[1][k], workout.sport)
                        = Expansion(Unforced(converter), zwo.workout[1][k],
                                    workout.sport)

C9_Witness ==
    /\ Returned("_parse_warmup")
    /\ converter.force_warmup_power = Some(50)
    /\ get(call.element, "PowerLow", 60) = 80
    /\ get(call.element, "PowerHigh", 70) = 90
    /\ ret.target_type = "HEART_RATE"
    /\ ret.target_value = 1

\* the zone the mapper gives the decimal fraction of n two-hundredths
ZoneOf(n) == _power_to_heart_rate_zone([n |-> n, ulp |-> 0])

\* C10: in heart-rate mode with force_warmup_power unset, a Warmup or
\* Cooldown step gets the zone of the average (PowerLow + PowerHigh) / 2, a
\* SteadyState step the zone of Power, interval work and recovery steps the
\* zones of OnPower and OffPower.
C10_ZoneOfAverage ==
    converter.force_warmup_power = None =>
        /\ Returned("_parse_warmup") /\ ret.target_type = "HEART_RATE" =>
              ret.target_value = ZoneOf(get(call.element, "PowerLow", 60)
                                        + get(call.element, "PowerHigh", 70))
        /\ Returned("_parse_cooldown") /\ ret.target_type = "HEART_RATE" =>
              ret.target_value = ZoneOf(get(call.element, "PowerLow", 60)
                                        + get(call.element, "PowerHigh", 65))
        /\ Returned("_parse_steady_state")
              /\ ret.target_type = "HEART_RATE" =>
              ret.target_value = ZoneOf(2 * get(call.element, "Power", 75))
        /\ Returned("_parse_intervals") =>
              \A k \in 1..Len(ret) :
                  ret[k].target_type = "HEART_RATE" =>
                      ret[k].target_value
                        = ZoneOf(2 * (IF k % 2 = 1
                                      THEN get(call.element, "OnPower", 85)
                                      ELSE get(call.element, "OffPower", 65)))

\* the positions of the files on which convert_zwo_to_fit raises
Failing == {k \in DOMAIN zwo_files : Raises(converter, zwo_files[k])}

\* C11: a file whose conversion raises does not end the batch: while the
\* loop runs the files before file_index were each handed to
\* convert_zwo_to_fit once, in order, whether or not an earlier one raised;
\* when convert_folder is done every file was attempted exactly once,
\* successful_conversions + failed_conversions is the number of files and
\* failed_conversions the number of files whose conversion raised
C11_BatchSurvivesFailures ==
    /\ pc = "loop" =>
        /\ attempted = [k \in 1..(file_index - 1) |-> k]
        /\ successful_conversions + failed_conversions = Len(attempted)
        /\ failed_conversions
            = Cardinality({k \in Failing : k < file_index})
    /\ pc = "done" /\ zwo_files # <<>> =>
        /\ attempted = [k \in DOMAIN zwo_files |-> k]
        /\ successful_conversions + failed_conversions = Len(zwo_files)
        /\ failed_conversions = Cardinality(Failing)

\* a batch is done whose first file raised and whose second file was
\* converted after it
C11_Witness ==
    /\ pc = "done"
    /\ Len(zwo_files) >= 2
    /\ 1 \in Failing
    /\ 2 \notin Failing
    /\ attempted[2] = 2
    /\ successful_conversions >= 1
    /\ failed_conversions >= 1

\* the configurations the data model excludes
InvalidConfiguration(self) ==
    \/ self.ftp_watts <= 0
    \/ self.power_buffer_percent < 0
    \/ self.force_warmup_power # None /\ self.force_warmup_power[1] <= 0

\* C12: under an invalid configuration (ftp_watts <= 0, a negative buffer,
\* or a forced warm-up fraction <= 0) no file is handed to
\* convert_zwo_to_fit, so no document is parsed, and no output file is
\* written
C12_InvalidConfigurationFailsFast ==
    InvalidConfiguration(converter) =>
        /\ attempted = <<>>
        /\ DOMAIN fit_folder = {}

\* C13: when convert_folder is done and every file converted (no failed
\* conversion), the output folder holds as many distinct files as there
\* were input files
C13_OneOutputPerDocument ==
    pc = "done" /\ zwo_files # <<>> /\ failed_conversions = 0 =>
        Cardinality(DOMAIN fit_folder) = Len(zwo_files)

\* C14: under a valid configuration (ftp_watts > 0, buffer >= 0) and power
\* fractions > 0, every power step a block parser returns has
\* custom_target_value_low <= custom_target_value_high, in both encodings;
\* the bounds of an unforced Warmup and of a Cooldown are the encoded lower
\* buffered bound of PowerLow and upper buffered bound of PowerHigh
C14_LowNotAboveHigh ==
    ~InvalidConfiguration(converter) =>
        /\ \A s \in ExpandedSteps :
              IsPowerStep(s[1]) =>
                  s[1].custom_target_value_low
                      <= s[1].custom_target_value_high
        /\ /\ Returned("_parse_warmup")
           /\ IsPowerStep(ret)
           /\ converter.force_warmup_power = None
           => EncodedBounds(converter, ret,
                            get(call.element, "PowerLow", 60),
                            get(call.element, "PowerHigh", 70))
        /\ Returned("_parse_cooldown") /\ IsPowerStep(ret)
           => EncodedBounds(converter, ret,
                            get(call.element, "PowerLow", 60),
                            get(call.element, "PowerHigh", 65))
====
